---- MODULE Spec2Model ----
(***************************************************************************)
(* Model of mcedit2/util/minecraftinstall.py: the group of Minecraft       *)
(* installs (MCInstallGroup), conventional installs (MCInstall), MultiMC   *)
(* installs and instances (MultiMCInstall, MMCInstance), version parsing   *)
(* (splitVersion, usableVersion, matchVersion) and the layering of         *)
(* resource loaders.                                                       *)
(*                                                                         *)
(* A version id is a string, modelled as a sequence of one-character       *)
(* strings so that the regular expression of splitVersion is computed      *)
(* character by character.                                                 *)
(***************************************************************************)
EXTENDS Integers, Sequences, FiniteSets, TLC

VARIABLES
    fs,                     \* the filesystem, fixed during a behaviour
    installationsOption,    \* setting minecraft_installs/installations
    multiMCInstallsOption,  \* setting minecraft_installs/multimc_installs
    currentInstallOption,   \* setting minecraft_installs/current_install_path
    allowSnapshotsOption,   \* setting minecraft_installs/allow_snapshots_
    constructed,            \* _installs is not None
    installations,          \* MCInstallGroup._installations
    mmcInstalls,            \* MCInstallGroup._mmcInstalls
    ret                     \* the last operation: its name, arguments, result

vars == <<fs, installationsOption, multiMCInstallsOption, currentInstallOption,
          allowSnapshotsOption, constructed, installations, mmcInstalls, ret>>

None == "None"     \* Python's None, where a string is expected
Raise == "Raise"   \* an exception left the operation

(***************************************************************************)
(* Bounds of the model.                                                    *)
(***************************************************************************)
MaxLen == 5        \* longest version string the parsing operations are given
MaxVersions == 2   \* most entries of one versions directory
MaxInstalls == 2   \* most entries of the installations list

(***************************************************************************)
(* Strings.                                                                *)
(***************************************************************************)
Digits == {"0", "1", "2", "3", "4", "5", "6", "7", "8", "9"}

DigitVal(c) ==
    CASE c = "0" -> 0 [] c = "1" -> 1 [] c = "2" -> 2 [] c = "3" -> 3
      [] c = "4" -> 4 [] c = "5" -> 5 [] c = "6" -> 6 [] c = "7" -> 7
      [] c = "8" -> 8 [] c = "9" -> 9

IsDigit(c) == c \in Digits

AllDigits(s) == \A i \in 1..Len(s) : IsDigit(s[i])

\* int() of a string of decimal digits; Python integers do not overflow.
RECURSIVE ToInt(_)
ToInt(s) ==
    IF s = <<>> THEN 0
    ELSE 10 * ToInt(SubSeq(s, 1, Len(s) - 1)) + DigitVal(s[Len(s)])

\* The last index of the run of digits that starts at i (s[i] is a digit).
RunEnd(s, i) ==
    CHOOSE j \in i..Len(s) :
        /\ \A k \in i..j : IsDigit(s[k])
        /\ (j = Len(s) \/ ~IsDigit(s[j + 1]))

\* (\d+)\.(\d+) matches at i: a run of digits, a period, a digit.
MatchAt(s, i) ==
    /\ IsDigit(s[i])
    /\ LET j == RunEnd(s, i)
       IN  /\ j + 2 <= Len(s)
           /\ s[j + 1] = "."
           /\ IsDigit(s[j + 2])

\* int(x) of Python 2 on a string of this alphabet: an optional sign, then
\* one or more digits; anything else raises ValueError.
PyIntParses(s) ==
    /\ s # <<>>
    /\ LET t == IF s[1] \in {"-", "+"} THEN Tail(s) ELSE s
       IN  t # <<>> /\ AllDigits(t)

\* (a1, a2) >= (b1, b2), Python's comparison of tuples.
TupleGE(a1, a2, b1, b2) == a1 > b1 \/ (a1 = b1 /\ a2 >= b2)

(***************************************************************************)
(* splitVersion, usableVersion, matchVersion.                              *)
(***************************************************************************)
\* The least element of a non-empty set of indices.
Least(S) == CHOOSE k \in S : \A m \in S : k <= m

\* The groups of a match whose major number is version[i..j] and whose
\* minor number is version[j+2..e]: the rest of the string is the revision.
splitGroups(version, i, j, e) ==
    [major |-> ToInt(SubSeq(version, i, j)),
     minor |-> ToInt(SubSeq(version, j + 2, e)),
     rev   |-> SubSeq(version, e + 1, Len(version))]

splitMinor(version, i, j) == splitGroups(version, i, j, RunEnd(version, j + 2))

splitMatch(version, starts) ==
    IF starts = {} THEN [major |-> 0, minor |-> 0, rev |-> <<>>]
    ELSE splitMinor(version, Least(starts), RunEnd(version, Least(starts)))

\* re.search(r"(\d+)\.(\d+)(.*)", version): the leftmost match, each group
\* greedy.  No match gives (0, 0, "").
splitVersion(version) ==
    splitMatch(version, {i \in 1..Len(version) : MatchAt(version, i)})

\* Lines 460-464, on the triple splitVersion returned.
usableSplit(sv) ==
    IF sv.major < 1 THEN FALSE
    ELSE IF sv.minor < 6 THEN FALSE
    ELSE TRUE

usableVersion(version) == usableSplit(splitVersion(version))

\* Lines 225-232, on the triple splitVersion returned.
matchSplit(sv) ==
    IF TupleGE(sv.major, sv.minor, 1, 9)
    THEN IF sv.rev = <<>> THEN TRUE
         ELSE PyIntParses(Tail(sv.rev))
    ELSE FALSE

\* findVersion1_9.matchVersion returns the version or None; its callers
\* test the result for truth, and a version it returns is never empty.
matchVersion(version) == matchSplit(splitVersion(version))

(***************************************************************************)
(* The filesystem.  A directory d (an install root, or the directory of a  *)
(* MultiMC configuration file) is fs.dirs[d]: whether it exists, whether   *)
(* d/versions exists, and the entries of d/versions in os.listdir order,   *)
(* each with the state of d/versions/<v>/<v>.jar: "missing", "notzip" (a   *)
(* file that is no archive) or "zip".  fs.mmc[d] is what a MultiMC         *)
(* directory holds besides: whether multimc.cfg exists, whether it sets    *)
(* InstanceDir, and the IntendedVersion of each usable instance.           *)
(***************************************************************************)
V1_5 == <<"1", ".", "5">>
V1_8 == <<"1", ".", "8">>
V1_9 == <<"1", ".", "9">>
V1_10 == <<"1", ".", "1", "0">>
V1_9_pre == <<"1", ".", "9", "-", "p">>

minecraftDir == "mc"          \* directories.minecraftDir
Roots == {"mc", "alt"}        \* folders a conventional install may name
MMCDirs == {"mmc"}            \* folders of MultiMC configuration files
Dirs == Roots \cup MMCDirs

JarKinds == {"missing", "notzip", "zip"}

\* Resource packs: one valid archive, one file that is no archive.
GoodPack == <<"good">>
BadPack == <<"bad">>
NoPack == <<>>                \* resourcePack=None

PackKind(file) == IF file = GoodPack THEN "zip"
                  ELSE IF file = BadPack THEN "notzip"
                  ELSE "missing"

\* A path: a file of directory dir, under sub ("versions": the jar of
\* version file; "resourcepacks": the pack named file).
Path(dir, sub, file) == [dir |-> dir, sub |-> sub, file |-> file]

NonePath == Path(None, None, <<>>)     \* None, where a path is expected
RaisePath == Path(Raise, Raise, <<>>)  \* an exception, where a path is expected

EntryOf(dir, version) ==
    {i \in 1..Len(fs.dirs[dir].listing) : fs.dirs[dir].listing[i].v = version}

FileKind(path) ==
    IF path.dir \notin Dirs THEN "missing"
    ELSE IF path.sub = "resourcepacks"
    THEN IF fs.dirs[path.dir].exists THEN PackKind(path.file) ELSE "missing"
    ELSE IF ~fs.dirs[path.dir].versionsDir \/ EntryOf(path.dir, path.file) = {}
    THEN "missing"
    ELSE fs.dirs[path.dir].listing[CHOOSE i \in EntryOf(path.dir, path.file) : TRUE].jar

\* os.path.exists(path)
PathExists(path) == FileKind(path) # "missing"

\* zipfile.is_zipfile(path)
jarOkay(path) == FileKind(path) = "zip"

\* os.listdir(versionsDir): the names, in listing order.
listdir(dir) == [i \in 1..Len(fs.dirs[dir].listing) |-> fs.dirs[dir].listing[i].v]

\* os.listdir raises OSError on a directory that does not exist.
listdirRaises(dir) == ~fs.dirs[dir].versionsDir

(***************************************************************************)
(* MCInstall.  An install is [name, path, versionsDir]; what is persisted  *)
(* of it is getJsonSettingValue, [name, path].                             *)
(***************************************************************************)
MCInstall(path, name) == [name |-> name, path |-> path, versionsDir |-> <<path, "versions">>]

NoInstall == MCInstall(None, None)     \* None, where an install is expected

getJsonSettingValue(install) == [name |-> install.name, path |-> install.path]

getVersionJarPath(install, version) == Path(install.path, "versions", version)

getResourcePackPath(install, filename) == Path(install.path, "resourcepacks", filename)

\* MCInstall.versions: the listed versions whose jar exists and that are
\* usable, or all whose jar exists when snapshots are allowed.
versions(install) ==
    SelectSeq(listdir(install.path),
              LAMBDA v : /\ PathExists(getVersionJarPath(install, v))
                         /\ (usableVersion(v) \/ allowSnapshotsOption))

versionsRaises(install) == install.path \notin Dirs \/ listdirRaises(install.path)

\* MCInstall.checkUsable raises MCInstallError (FALSE) or does nothing (TRUE).
checkUsable(install) ==
    IF install.path \notin Dirs \/ ~fs.dirs[install.path].exists THEN FALSE
    ELSE IF ~fs.dirs[install.path].versionsDir THEN FALSE
    ELSE IF Len(versions(install)) = 0 THEN FALSE
    ELSE TRUE

(***************************************************************************)
(* MultiMCInstall.  An install is [configPath, mmcDir, versionsDir]; what  *)
(* is persisted of it is [configFile].                                     *)
(***************************************************************************)
MultiMCInstall(configPath) ==
    [configPath |-> configPath, mmcDir |-> configPath, versionsDir |-> <<configPath, "versions">>]

\* MultiMCInstall.__init__ raises MultiMCInstallError (FALSE) when the
\* configuration file does not exist or sets no InstanceDir.
MultiMCInstallOk(configPath) ==
    /\ configPath \in MMCDirs
    /\ fs.mmc[configPath].config
    /\ fs.mmc[configPath].instanceDir

mmcJsonSettingValue(install) == [configFile |-> install.configPath]

mmcVersionJarPath(install, version) == Path(install.mmcDir, "versions", version)

\* MultiMCInstall.versions: the listed versions whose jar exists.
mmcVersions(install) ==
    SelectSeq(listdir(install.mmcDir),
              LAMBDA v : PathExists(mmcVersionJarPath(install, v)))

mmcVersionsRaises(install) == listdirRaises(install.mmcDir)

(***************************************************************************)
(* MCInstallGroup.findVersion1_9.                                          *)
(***************************************************************************)
\* The jar of the first of the versions vs whose index is in hits.
hitAt(install, vs, hits) ==
    IF hits = {} THEN NonePath ELSE Path(install.path, "versions", vs[Least(hits)])

\* The inner loop over the versions vs of a conventional install: the jar
\* of the first that matchVersion accepts and whose jar is an archive.
hitAmong(install, vs) ==
    hitAt(install, vs, {i \in 1..Len(vs) :
                           /\ matchVersion(vs[i])
                           /\ jarOkay(getVersionJarPath(install, vs[i]))})

installHit(install) ==
    IF versionsRaises(install) THEN RaisePath
    ELSE hitAmong(install, versions(install))

\* The inner loop over the versions vs of a MultiMC install.
mmcHitAmong(install, vs) ==
    hitAt([path |-> install.mmcDir], vs,
          {i \in 1..Len(vs) :
              /\ matchVersion(vs[i])
              /\ jarOkay(mmcVersionJarPath(install, vs[i]))})

mmcInstallHit(install) ==
    IF mmcVersionsRaises(install) THEN RaisePath
    ELSE mmcHitAmong(install, mmcVersions(install))

\* An outer loop: the first install that returns a jar or raises ends it.
firstEnded(results, ended) ==
    IF ended = {} THEN NonePath ELSE results[Least(ended)]

firstHit(results) ==
    firstEnded(results, {k \in 1..Len(results) : results[k] # NonePath})

\* The second loop runs when the first has returned nothing.
orElse(first, second) == IF first # NonePath THEN first ELSE second

\* The jar found, NonePath (the function ends without a return) or RaisePath.
findVersion1_9 ==
    orElse(firstHit([k \in 1..Len(installations) |-> installHit(installations[k])]),
           firstHit([k \in 1..Len(mmcInstalls) |-> mmcInstallHit(mmcInstalls[k])]))

(***************************************************************************)
(* ResourceLoader (mcedit2.resourceloader): the loader collects the        *)
(* archives added to it, in order.  addZipFile opens the archive and       *)
(* raises when the file is missing or is no archive.                       *)
(***************************************************************************)
ResourceLoader(fallback) ==
    [status |-> IF fallback = RaisePath THEN Raise ELSE "ok",
     zipFiles |-> <<>>, modsDirs |-> <<>>]

Raised == [status |-> Raise, zipFiles |-> <<>>, modsDirs |-> <<>>]

addZipFile(loader, path) ==
    IF loader.status = Raise THEN Raised
    ELSE IF path # NonePath /\ path # RaisePath /\ jarOkay(path)
    THEN [loader EXCEPT !.zipFiles = Append(@, path)]
    ELSE Raised

addModsFolder(loader, path) ==
    IF loader.status = Raise THEN Raised
    ELSE [loader EXCEPT !.modsDirs = Append(@, path)]

(***************************************************************************)
(* MCInstall.getResourceLoader.                                            *)
(***************************************************************************)
\* try: added / except Exception: the loader as it was.
tryAdd(loader, added) == IF added.status = Raise THEN loader ELSE added

\* Lines 309-313: the resource pack is added inside try/except Exception.
addResourcePack(loader, install, resourcePack) ==
    IF resourcePack # NoPack /\ loader.status # Raise
    THEN tryAdd(loader, addZipFile(loader, getResourcePackPath(install, resourcePack)))
    ELSE loader

\* A fallback that would take the last of the versions instead of the first.
lastVersionOr(install, vs, path) ==
    IF Len(vs) > 0 THEN getVersionJarPath(install, vs[Len(vs)]) ELSE path

\* Lines 316-318: the jar of the first of the versions vs, if there is one.
firstVersionOr(install, vs, path) ==
    IF Len(vs) > 0 THEN getVersionJarPath(install, vs[1]) ELSE path

\* Lines 315-318: path, or another jar when path does not exist.
existingOrFirst(install, path) ==
    IF ~PathExists(path)
    THEN IF versionsRaises(install) THEN RaisePath
         ELSE firstVersionOr(install, versions(install), path)
    ELSE path

\* Lines 314-318: the jar of the version, or of the first of the install's
\* versions when that jar does not exist and there is a version.
versionJarOrFirst(install, version) ==
    existingOrFirst(install, getVersionJarPath(install, version))

\* Line 319: loader.addZipFile(path)
addVersionJar(loader, path) ==
    IF path = RaisePath THEN Raised ELSE addZipFile(loader, path)

\* A test that would ask for the reference layer whatever the version.
needsV1_9Always(version) == TRUE

majorMinor(sv) == <<sv.major, sv.minor>>

\* Lines 320-323: "Need v1.9 for multipart block models".
needsV1_9(version) == majorMinor(splitVersion(version)) # <<1, 9>>

\* Lines 323-324 (and 364-365): the jar findVersion1_9 found is added last.
addV1_9(loader, version, v1_9) ==
    IF needsV1_9(version) THEN addZipFile(loader, v1_9) ELSE loader

\* The body of getResourceLoader after line 307, v1_9 being what
\* findVersion1_9 returned.
getResourceLoaderWith(install, version, resourcePack, v1_9) ==
    addV1_9(addVersionJar(addResourcePack(ResourceLoader(v1_9), install, resourcePack),
                          versionJarOrFirst(install, version)),
            version, v1_9)

getResourceLoader(install, version, resourcePack) ==
    getResourceLoaderWith(install, version, resourcePack, findVersion1_9)

(***************************************************************************)
(* MMCInstance.  An instance is [install, index, version]: the index-th    *)
(* folder of the MultiMC install's instance directory.                     *)
(***************************************************************************)
MMCInstance(install, index) ==
    [install |-> install, index |-> index,
     version |-> fs.mmc[install.mmcDir].instances[index]]

\* MMCInstance.__init__ raises MultiMCInstanceError (FALSE) when the folder
\* has no instance.cfg or the file sets no IntendedVersion.
MMCInstanceOk(install, index) == fs.mmc[install.mmcDir].instances[index] # <<>>

\* MultiMCInstall.instances: the folders that make an instance, in order.
instanceFolders(install) ==
    SelectSeq([i \in 1..Len(fs.mmc[install.mmcDir].instances) |-> i],
              LAMBDA i : MMCInstanceOk(install, i))

instancesAt(install, folders) ==
    [k \in 1..Len(folders) |-> MMCInstance(install, folders[k])]

instancesOf(install) == instancesAt(install, instanceFolders(install))

modsDir(instance) == Path(instance.install.mmcDir, "mods", <<ToString(instance.index)>>)

\* Lines 358-359: the resource pack, a path, is added with no try/except.
mmcAddResourcePack(loader, resourcePack) ==
    IF resourcePack # NonePath THEN addZipFile(loader, resourcePack) ELSE loader

\* The body of MMCInstance.getResourceLoader after line 356.
mmcGetResourceLoaderWith(instance, resourcePack, v1_9) ==
    addModsFolder(
        addV1_9(addZipFile(mmcAddResourcePack(ResourceLoader(v1_9), resourcePack),
                           mmcVersionJarPath(instance.install, instance.version)),
                instance.version, v1_9),
        modsDir(instance))

mmcGetResourceLoader(instance, resourcePack) ==
    mmcGetResourceLoaderWith(instance, resourcePack, findVersion1_9)

(***************************************************************************)
(* MCInstallGroup.                                                         *)
(***************************************************************************)
\* MCInstallGroup.getInstall over the list insts.
getInstall(insts, path) ==
    LET found == {i \in 1..Len(insts) : insts[i].path = path}
    IN  IF found = {} THEN NoInstall ELSE insts[Least(found)]

\* _loadInstalls: the persisted installs that pass checkUsable, in order.
loadInstalls ==
    SelectSeq([i \in 1..Len(installationsOption) |->
                   MCInstall(installationsOption[i].path, installationsOption[i].name)],
              checkUsable)

\* _loadMMCInstalls: the persisted MultiMC installs that can be constructed.
loadMMCInstalls ==
    LET ok == SelectSeq([i \in 1..Len(multiMCInstallsOption) |->
                            multiMCInstallsOption[i].configFile],
                        MultiMCInstallOk)
    IN  [i \in 1..Len(ok) |-> MultiMCInstall(ok[i])]

\* A save that would write the installations and leave the MultiMC setting.
saveInstallationsOnly(insts, mmcs) ==
    [installations |-> [i \in 1..Len(insts) |-> [name |-> insts[i].name, path |-> insts[i].path]],
     multiMC |-> multiMCInstallsOption]

\* _saveInstalls: both settings, from the two lists.
saveInstalls(insts, mmcs) ==
    [installations |-> [i \in 1..Len(insts) |-> getJsonSettingValue(insts[i])],
     multiMC |-> [i \in 1..Len(mmcs) |-> mmcJsonSettingValue(mmcs[i])]]

\* getDefaultInstall, line 138: MCInstall(self, minecraftDir, "(Default)")
defaultInstall == MCInstall(minecraftDir, "(Default)")

\* A discovery that would append the default install whenever it is usable.
appendsWhenUsable(persisted) == checkUsable(defaultInstall)

\* Whether getDefaultInstall appends the default install to the list:
\* it is usable and its setting value is not in the persisted setting.
appendsDefault(persisted) ==
    /\ checkUsable(defaultInstall)
    /\ \A i \in 1..Len(persisted) : persisted[i] # getJsonSettingValue(defaultInstall)

\* A selection that would fall back to the first install without storing it.
selectedInstallPathUnsaved(insts, current) ==
    IF \E i \in 1..Len(insts) : insts[i].path = current
    THEN [path |-> current, current |-> current]
    ELSE IF Len(insts) > 0
    THEN [path |-> insts[1].path, current |-> current]
    ELSE [path |-> "None", current |-> current]

\* selectedInstallPath: the path returned (None when it ends without a
\* return) and the value the current-install setting is left with.
selectedInstallPath(insts, current) ==
    IF \E i \in 1..Len(insts) : insts[i].path = current
    THEN [path |-> current, current |-> current]
    ELSE IF Len(insts) > 0
    THEN [path |-> insts[1].path, current |-> insts[1].path]
    ELSE [path |-> None, current |-> current]

\* __init__ (lines 93-104), then getDefaultInstall (lines 138-152).
Construct ==
    LET insts == loadInstalls
        mmcs == loadMMCInstalls
        current == IF getInstall(insts, currentInstallOption) = NoInstall
                   THEN IF Len(insts) > 0 THEN insts[1].path ELSE ""
                   ELSE currentInstallOption
        append == appendsDefault(installationsOption)
        final == IF append THEN Append(insts, defaultInstall) ELSE insts
        saved == saveInstalls(final, mmcs)
    IN  /\ installations' = final
        /\ mmcInstalls' = mmcs
        /\ installationsOption' = IF append THEN saved.installations
                                  ELSE installationsOption
        /\ multiMCInstallsOption' = IF append THEN saved.multiMC
                                    ELSE multiMCInstallsOption
        /\ currentInstallOption' = IF checkUsable(defaultInstall) /\ current = ""
                                   THEN defaultInstall.path ELSE current
        /\ constructed' = TRUE
        /\ ret' = [op |-> "construct", again |-> ret.op = "construct"]
        /\ UNCHANGED <<fs, allowSnapshotsOption>>

\* MCInstallGroup.addInstall
AddInstall(install) ==
    /\ constructed
    /\ Len(installations) < MaxInstalls
    /\ LET saved == saveInstalls(Append(installations, install), mmcInstalls)
       IN  /\ installations' = Append(installations, install)
           /\ installationsOption' = saved.installations
           /\ multiMCInstallsOption' = saved.multiMC
    /\ ret' = [op |-> "addInstall", path |-> install.path]
    /\ UNCHANGED <<fs, currentInstallOption, allowSnapshotsOption, constructed, mmcInstalls>>

\* MinecraftInstallsDialog.addInstall: the folder chosen is checked, added
\* to the group and made the current install (_addInstall).
DialogAddInstall(folder) ==
    /\ constructed
    /\ Len(installations) < MaxInstalls
    /\ LET install == MCInstall(folder, "Unnamed")
           saved == saveInstalls(Append(installations, install), mmcInstalls)
       IN  IF checkUsable(install)
           THEN /\ installations' = Append(installations, install)
                /\ installationsOption' = saved.installations
                /\ multiMCInstallsOption' = saved.multiMC
                /\ currentInstallOption' = install.path
                /\ ret' = [op |-> "dialogAddInstall", path |-> folder, added |-> TRUE]
           ELSE /\ ret' = [op |-> "dialogAddInstall", path |-> folder, added |-> FALSE]
                /\ UNCHANGED <<installations, installationsOption, multiMCInstallsOption,
                               currentInstallOption>>
    /\ UNCHANGED <<fs, allowSnapshotsOption, constructed, mmcInstalls>>

\* MCInstallGroup.removeInstall
removeInstall(insts, path) == SelectSeq(insts, LAMBDA i : i.path # path)

RemoveInstall(path) ==
    /\ constructed
    /\ LET kept == removeInstall(installations, path)
           saved == saveInstalls(kept, mmcInstalls)
       IN  /\ installations' = kept
           /\ installationsOption' = saved.installations
           /\ multiMCInstallsOption' = saved.multiMC
    /\ ret' = [op |-> "removeInstall", path |-> path]
    /\ UNCHANGED <<fs, currentInstallOption, allowSnapshotsOption, constructed, mmcInstalls>>

\* MCInstallGroup.addMMCInstall, of an install the dialog could construct.
AddMMCInstall(configPath) ==
    /\ constructed
    /\ Len(mmcInstalls) < MaxInstalls
    /\ MultiMCInstallOk(configPath)
    /\ LET added == Append(mmcInstalls, MultiMCInstall(configPath))
           saved == saveInstalls(installations, added)
       IN  /\ mmcInstalls' = added
           /\ installationsOption' = saved.installations
           /\ multiMCInstallsOption' = saved.multiMC
    /\ ret' = [op |-> "addMMCInstall", path |-> configPath]
    /\ UNCHANGED <<fs, currentInstallOption, allowSnapshotsOption, constructed, installations>>

\* MCInstallGroup.removeMMCInstall: del self._mmcInstalls[index]
RemoveMMCInstall(index) ==
    /\ constructed
    /\ index \in 1..Len(mmcInstalls)
    /\ LET kept == [i \in 1..(Len(mmcInstalls) - 1) |->
                        IF i < index THEN mmcInstalls[i] ELSE mmcInstalls[i + 1]]
           saved == saveInstalls(installations, kept)
       IN  /\ mmcInstalls' = kept
           /\ installationsOption' = saved.installations
           /\ multiMCInstallsOption' = saved.multiMC
    /\ ret' = [op |-> "removeMMCInstall", path |-> None]
    /\ UNCHANGED <<fs, currentInstallOption, allowSnapshotsOption, constructed, installations>>

\* MinecraftInstallsDialog.selectInstall: the path of a row of the table.
SelectInstall(row) ==
    /\ constructed
    /\ row \in 1..Len(installations)
    /\ currentInstallOption' = installations[row].path
    /\ ret' = [op |-> "selectInstall", path |-> installations[row].path]
    /\ UNCHANGED <<fs, installationsOption, multiMCInstallsOption, allowSnapshotsOption,
                   constructed, installations, mmcInstalls>>

\* The snapshots check box of the dialog: allowSnapshotsOption.setValue
ToggleSnapshots ==
    /\ constructed
    /\ allowSnapshotsOption' = ~allowSnapshotsOption
    /\ ret' = [op |-> "toggleSnapshots", path |-> None]
    /\ UNCHANGED <<fs, installationsOption, multiMCInstallsOption, currentInstallOption,
                   constructed, installations, mmcInstalls>>

\* MCInstallGroup.getCurrentInstall
GetCurrentInstall ==
    /\ constructed
    /\ LET sel == selectedInstallPath(installations, currentInstallOption)
       IN  /\ currentInstallOption' = sel.current
           /\ ret' = [op |-> "getCurrentInstall", was |-> currentInstallOption,
                      result |-> getInstall(installations, sel.path)]
    /\ UNCHANGED <<fs, installationsOption, multiMCInstallsOption, allowSnapshotsOption,
                   constructed, installations, mmcInstalls>>

(***************************************************************************)
(* Queries, as operations that leave their result in ret.                  *)
(***************************************************************************)
\* A query leaves the state of the group as it is, so a behaviour asks one
\* query of the state an operation of the group has left.
QueryOps == {"getResourceLoader", "mmcGetResourceLoader", "findVersion1_9",
             "usableVersion", "matchVersion"}

RequestVersions == {V1_8, V1_9, V1_10, V1_9_pre}
Packs == {NoPack, GoodPack, BadPack}
MMCPacks == {NonePath, Path("mmc", "resourcepacks", GoodPack),
             Path("mmc", "resourcepacks", BadPack)}

GetResourceLoader(i, version, resourcePack) ==
    /\ constructed
    /\ i \in 1..Len(installations)
    /\ ret' = [op |-> "getResourceLoader", install |-> installations[i],
               version |-> version, resourcePack |-> resourcePack,
               result |-> getResourceLoader(installations[i], version, resourcePack)]
    /\ UNCHANGED <<fs, installationsOption, multiMCInstallsOption, currentInstallOption,
                   allowSnapshotsOption, constructed, installations, mmcInstalls>>

MMCGetResourceLoader(k, j, resourcePack) ==
    /\ constructed
    /\ k \in 1..Len(mmcInstalls)
    /\ j \in 1..Len(instancesOf(mmcInstalls[k]))
    /\ ret' = [op |-> "mmcGetResourceLoader", instance |-> instancesOf(mmcInstalls[k])[j],
               resourcePack |-> resourcePack,
               result |-> mmcGetResourceLoader(instancesOf(mmcInstalls[k])[j], resourcePack)]
    /\ UNCHANGED <<fs, installationsOption, multiMCInstallsOption, currentInstallOption,
                   allowSnapshotsOption, constructed, installations, mmcInstalls>>

FindVersion1_9 ==
    /\ constructed
    /\ ret' = [op |-> "findVersion1_9", result |-> findVersion1_9]
    /\ UNCHANGED <<fs, installationsOption, multiMCInstallsOption, currentInstallOption,
                   allowSnapshotsOption, constructed, installations, mmcInstalls>>

UsableVersion(version) ==
    /\ ret' = [op |-> "usableVersion", version |-> version,
               result |-> usableVersion(version)]
    /\ UNCHANGED <<fs, installationsOption, multiMCInstallsOption, currentInstallOption,
                   allowSnapshotsOption, constructed, installations, mmcInstalls>>

MatchVersion(version) ==
    /\ ret' = [op |-> "matchVersion", version |-> version,
               result |-> matchVersion(version)]
    /\ UNCHANGED <<fs, installationsOption, multiMCInstallsOption, currentInstallOption,
                   allowSnapshotsOption, constructed, installations, mmcInstalls>>

(***************************************************************************)
(* getSelectedResourceLoader.  The settings current_version and            *)
(* current_resource_pack are written outside this module: the operation    *)
(* reads them as currentVersion and currentResourcePack, "" being <<>>.    *)
(***************************************************************************)
RaiseVersion == <<Raise>>   \* an exception, where a version is expected

\* MCInstallGroup.getDefaultResourceLoader
getDefaultResourceLoaderWith(v18) == addZipFile(ResourceLoader(v18), v18)

getDefaultResourceLoader == getDefaultResourceLoaderWith(findVersion1_9)

\* list(install.versions)[0]: IndexError on an empty list.
firstOf(vs) == IF Len(vs) = 0 THEN RaiseVersion ELSE vs[1]

firstVersion(install) ==
    IF versionsRaises(install) THEN RaiseVersion ELSE firstOf(versions(install))

\* Lines 61-63: the version of the setting, or the first of the install.
selectedVersion(install, currentVersion) ==
    IF currentVersion = <<>> THEN firstVersion(install) ELSE currentVersion

\* Line 65: install.getResourceLoader(v, p)
loaderForVersion(install, v, p) ==
    IF v = RaiseVersion THEN Raised ELSE getResourceLoader(install, v, p)

\* Lines 57-65, install being what getCurrentInstall returned.
selectedLoader(install, currentVersion, currentResourcePack) ==
    IF install = NoInstall THEN getDefaultResourceLoader
    ELSE loaderForVersion(install, selectedVersion(install, currentVersion),
                          currentResourcePack)

\* MCInstallGroup.getCurrentInstall, as a value.
getCurrentInstall ==
    getInstall(installations, selectedInstallPath(installations, currentInstallOption).path)

getSelectedResourceLoader(currentVersion, currentResourcePack) ==
    selectedLoader(getCurrentInstall, currentVersion, currentResourcePack)

GetSelectedResourceLoader(currentVersion, currentResourcePack) ==
    /\ constructed
    /\ currentInstallOption' = selectedInstallPath(installations, currentInstallOption).current
    /\ ret' = [op |-> "getSelectedResourceLoader",
               currentVersion |-> currentVersion,
               currentResourcePack |-> currentResourcePack,
               install |-> getCurrentInstall,
               version |-> selectedVersion(getCurrentInstall, currentVersion),
               result |-> getSelectedResourceLoader(currentVersion, currentResourcePack)]
    /\ UNCHANGED <<fs, installationsOption, multiMCInstallsOption, allowSnapshotsOption,
                   constructed, installations, mmcInstalls>>

(***************************************************************************)
(* getResourceLoaderForFilename.  A filename is a string, modelled as the  *)
(* sequence of its names and separators ("/"), a name that continues       *)
(* another ("saves", "saves-old") being given as that name and the rest    *)
(* ("saves", "-old"), so that startswith is computed on the string.        *)
(***************************************************************************)
\* MMCInstance.saveFileDir: os.path.join(path, "minecraft", "saves"), path
\* being the folder of the instance in the instance directory.
instanceSaves(mmcDir, index) ==
    <<mmcDir, "/", "instances", "/", ToString(index), "/", "minecraft", "/", "saves">>

saveFileDir(instance) == instanceSaves(instance.install.mmcDir, instance.index)

\* os.path.normpath, of the paths given here: a trailing separator is dropped.
normpath(path) ==
    IF Len(path) > 1 /\ path[Len(path)] = "/" THEN SubSeq(path, 1, Len(path) - 1)
    ELSE path

\* str.startswith
startswith(string, prefix) ==
    /\ Len(prefix) <= Len(string)
    /\ SubSeq(string, 1, Len(prefix)) = prefix

\* The largest element of a non-empty set of indices.
Greatest(S) == CHOOSE k \in S : \A m \in S : m <= k

dirnameAt(path, slashes) ==
    IF slashes = {} THEN <<>> ELSE SubSeq(path, 1, Greatest(slashes) - 1)

\* os.path.dirname: what precedes the last separator.
dirname(path) == dirnameAt(path, {i \in 1..Len(path) : path[i] = "/"})

\* MCInstallGroup.instances: the instances of the MultiMC installs from the
\* k-th on, in order.
RECURSIVE instancesFrom(_)
instancesFrom(k) ==
    IF k > Len(mmcInstalls) THEN <<>>
    ELSE instancesOf(mmcInstalls[k]) \o instancesFrom(k + 1)

\* Lines 34-37: the instances whose saves folder the filename starts with.
holders(filename, insts) ==
    {i \in 1..Len(insts) : startswith(filename, normpath(saveFileDir(insts[i])))}

\* Lines 42-45
worldFolder(filename, isdir) == IF ~isdir THEN dirname(filename) ELSE filename

\* Lines 46-48: the folder mods beside the saves folder of the world, a
\* path outside the install roots, its string in the field file.
modsFolder(filename, isdir) ==
    Path(None, "mods", dirname(dirname(worldFolder(filename, isdir))) \o <<"/", "mods">>)

\* Lines 49-51
addModsIfDir(loader, folder, modsIsDir) ==
    IF modsIsDir THEN addModsFolder(loader, folder) ELSE loader

\* Lines 34-53, insts being the instances and held those that hold the file.
loaderForWorld(filename, isdir, modsIsDir, currentVersion, currentResourcePack, insts, held) ==
    IF held # {} THEN mmcGetResourceLoader(insts[Least(held)], NonePath)
    ELSE addModsIfDir(getSelectedResourceLoader(currentVersion, currentResourcePack),
                      modsFolder(filename, isdir), modsIsDir)

loaderForNormalized(filename, isdir, modsIsDir, currentVersion, currentResourcePack, insts) ==
    loaderForWorld(filename, isdir, modsIsDir, currentVersion, currentResourcePack,
                   insts, holders(filename, insts))

\* isdir is what os.path.isdir(filename) returns and modsIsDir what
\* os.path.isdir(modsFolder) returns.
getResourceLoaderForFilename(filename, isdir, modsIsDir, currentVersion, currentResourcePack) ==
    loaderForNormalized(normpath(filename), isdir, modsIsDir, currentVersion,
                        currentResourcePack, instancesFrom(1))

GetResourceLoaderForFilename(filename, isdir, modsIsDir, currentVersion, currentResourcePack) ==
    /\ constructed
    /\ currentInstallOption' =
          IF holders(normpath(filename), instancesFrom(1)) # {} THEN currentInstallOption
          ELSE selectedInstallPath(installations, currentInstallOption).current
    /\ ret' = [op |-> "getResourceLoaderForFilename",
               filename |-> filename, isdir |-> isdir, modsIsDir |-> modsIsDir,
               currentVersion |-> currentVersion,
               currentResourcePack |-> currentResourcePack,
               result |-> getResourceLoaderForFilename(filename, isdir, modsIsDir,
                                                       currentVersion, currentResourcePack)]
    /\ UNCHANGED <<fs, installationsOption, multiMCInstallsOption, allowSnapshotsOption,
                   constructed, installations, mmcInstalls>>

(***************************************************************************)
(* Filesystems and settings a behaviour starts from.                       *)
(***************************************************************************)
Absent == [exists |-> FALSE, versionsDir |-> FALSE, listing |-> <<>>]
NoVersions == [exists |-> TRUE, versionsDir |-> FALSE, listing |-> <<>>]
Listed(listing) == [exists |-> TRUE, versionsDir |-> TRUE, listing |-> listing]
Jar(v, kind) == [v |-> v, jar |-> kind]

\* The listings of at most n entries, of distinct versions among ids.
Listings(ids, n) ==
    {l \in UNION {[1..k -> [v : ids, jar : JarKinds]] : k \in 0..n} :
        \A i, j \in 1..Len(l) : i # j => l[i].v # l[j].v}

SeqsUpTo(S, n) == UNION {[1..k -> S] : k \in 0..n}

\* The filesystem whose directories mc, alt and mmc are as given.
FS(mc, alt, mmc, multimc) ==
    [dirs |-> [d \in Dirs |-> IF d = "mc" THEN mc ELSE IF d = "alt" THEN alt ELSE mmc],
     mmc |-> [d \in MMCDirs |-> multimc]]

InitialRet == [op |-> "start"]

\* The group of installs: construction, the operations of the group and of
\* the dialog, over filesystems that differ in what checkUsable finds.
GroupNames == {"(Default)", "Unnamed"}
GroupEntries == [name : GroupNames, path : Roots]

GroupFS ==
    {FS(mc, alt, Listed(<<>>), [config |-> cfg, instanceDir |-> TRUE, instances |-> <<>>]) :
        mc \in {Absent, Listed(<<Jar(V1_8, "zip")>>), Listed(<<Jar(V1_5, "zip")>>)},
        alt \in {NoVersions, Listed(<<Jar(V1_8, "zip")>>)},
        cfg \in BOOLEAN}

Init ==
    /\ fs \in GroupFS
    /\ installationsOption \in SeqsUpTo(GroupEntries, MaxInstalls)
    /\ multiMCInstallsOption \in SeqsUpTo([configFile : MMCDirs], 1)
    /\ currentInstallOption \in {""} \cup Roots
    /\ allowSnapshotsOption \in BOOLEAN
    /\ constructed = FALSE
    /\ installations = <<>>
    /\ mmcInstalls = <<>>
    /\ ret = InitialRet

Next ==
    \/ Construct
    \/ \E name \in GroupNames, path \in Roots : AddInstall(MCInstall(path, name))
    \/ \E folder \in Roots : DialogAddInstall(folder)
    \/ \E path \in Roots : RemoveInstall(path)
    \/ \E configPath \in MMCDirs : AddMMCInstall(configPath)
    \/ \E index \in 1..MaxInstalls : RemoveMMCInstall(index)
    \/ \E row \in 1..(MaxInstalls + 1) : SelectInstall(row)
    \/ ToggleSnapshots
    \/ GetCurrentInstall

Spec == Init /\ [][Next]_vars

\* The resource loaders: one construction, then the queries, over
\* filesystems that differ in the versions of mc, alt and mmc.
RichIds == {V1_5, V1_8, V1_9}

LoaderFS ==
    {FS(mc, alt, mmc, [config |-> TRUE, instanceDir |-> TRUE,
                       instances |-> <<V1_8, <<>>, V1_9>>]) :
        mc \in {Absent, NoVersions} \cup {Listed(l) : l \in Listings(RichIds, MaxVersions)},
        alt \in {Absent, Listed(<<Jar(V1_10, "zip")>>),
                 Listed(<<Jar(V1_9_pre, "zip"), Jar(V1_9, "zip")>>)},
        mmc \in {NoVersions, Listed(<<Jar(V1_8, "zip"), Jar(V1_9, "zip")>>)}}

InitLoader ==
    /\ fs \in LoaderFS
    /\ installationsOption \in
          {<<[name |-> "Unnamed", path |-> "alt"]>>,
           <<[name |-> "(Default)", path |-> "mc"], [name |-> "Unnamed", path |-> "alt"]>>}
    /\ multiMCInstallsOption = <<[configFile |-> "mmc"]>>
    /\ currentInstallOption = ""
    /\ allowSnapshotsOption \in BOOLEAN
    /\ constructed = FALSE
    /\ installations = <<>>
    /\ mmcInstalls = <<>>
    /\ ret = InitialRet

NextLoader ==
    \/ ~constructed /\ Construct
    \/ ret.op \notin QueryOps /\ ToggleSnapshots
    \/ /\ ret.op \notin QueryOps
       /\ \E i \in 1..Len(installations), version \in RequestVersions, resourcePack \in Packs :
             GetResourceLoader(i, version, resourcePack)
    \/ /\ ret.op \notin QueryOps
       /\ \E k \in 1..Len(mmcInstalls), j \in 1..2, resourcePack \in MMCPacks :
             MMCGetResourceLoader(k, j, resourcePack)
    \/ ret.op \notin QueryOps /\ FindVersion1_9

SpecLoader == InitLoader /\ [][NextLoader]_vars

\* The installs a group retains: construction, the dialog's addInstall of
\* a folder that passes checkUsable, removeInstall, the snapshots check box
\* and getSelectedResourceLoader, over the filesystems of the group.
SelectedVersions == {<<>>, V1_8}

NextUsable ==
    \/ Construct
    \/ \E folder \in Roots : DialogAddInstall(folder)
    \/ \E path \in Roots : RemoveInstall(path)
    \/ ToggleSnapshots
    \/ \E currentVersion \in SelectedVersions, currentResourcePack \in {NoPack, GoodPack} :
          GetSelectedResourceLoader(currentVersion, currentResourcePack)

SpecUsable == Init /\ [][NextUsable]_vars

\* The loader for a world: one construction, selections of the current
\* install, and getResourceLoaderForFilename of worlds in and beside the
\* saves folders of the MultiMC instances and of the installs.
WorldFS ==
    {FS(mc, alt, mmc, [config |-> TRUE, instanceDir |-> TRUE,
                       instances |-> <<V1_8, <<>>, V1_9>>]) :
        mc \in {Absent, Listed(<<Jar(V1_8, "zip"), Jar(V1_9, "zip")>>)},
        alt \in {Absent, Listed(<<Jar(V1_10, "zip")>>)},
        mmc \in {NoVersions, Listed(<<Jar(V1_8, "zip"), Jar(V1_9, "zip")>>)}}

World(filename, isdir) == [filename |-> filename, isdir |-> isdir]

Worlds ==
    {World(instanceSaves("mmc", 1) \o <<"/", "World">>, TRUE),
     World(instanceSaves("mmc", 1) \o <<"/", "World", "/">>, TRUE),
     World(instanceSaves("mmc", 3) \o <<"/", "World", "/", "level.dat">>, FALSE),
     World(instanceSaves("mmc", 1) \o <<"-old", "/", "World">>, TRUE),
     World(instanceSaves("mmc", 2) \o <<"/", "World">>, TRUE),
     World(<<"mc", "/", "saves", "/", "World">>, TRUE),
     World(<<"alt", "/", "saves", "/", "World", "/", "level.dat">>, FALSE)}

InitWorld ==
    /\ fs \in WorldFS
    /\ installationsOption =
          <<[name |-> "(Default)", path |-> "mc"], [name |-> "Unnamed", path |-> "alt"]>>
    /\ multiMCInstallsOption = <<[configFile |-> "mmc"]>>
    /\ currentInstallOption \in {""} \cup Roots
    /\ allowSnapshotsOption = FALSE
    /\ constructed = FALSE
    /\ installations = <<>>
    /\ mmcInstalls = <<>>
    /\ ret = InitialRet

NextWorld ==
    \/ ~constructed /\ Construct
    \/ \E row \in 1..MaxInstalls : SelectInstall(row)
    \/ \E world \in Worlds, modsIsDir \in BOOLEAN,
          currentVersion \in SelectedVersions, currentResourcePack \in {NoPack, GoodPack} :
          GetResourceLoaderForFilename(world.filename, world.isdir, modsIsDir,
                                       currentVersion, currentResourcePack)

SpecWorld == InitWorld /\ [][NextWorld]_vars

\* The parsing of version ids: every string of at most MaxLen characters.
Alphabet == {"0", "1", "6", "9", ".", "-", "p"}
VersionStrings == SeqsUpTo(Alphabet, MaxLen)

InitVersion ==
    /\ fs = FS(Absent, Absent, Absent,
               [config |-> FALSE, instanceDir |-> FALSE, instances |-> <<>>])
    /\ installationsOption = <<>>
    /\ multiMCInstallsOption = <<>>
    /\ currentInstallOption = ""
    /\ allowSnapshotsOption = FALSE
    /\ constructed = FALSE
    /\ installations = <<>>
    /\ mmcInstalls = <<>>
    /\ ret = InitialRet

NextVersion ==
    \/ ret.op \notin QueryOps /\ \E version \in VersionStrings : UsableVersion(version)
    \/ ret.op \notin QueryOps /\ \E version \in VersionStrings : MatchVersion(version)

SpecVersion == InitVersion /\ [][NextVersion]_vars

(***************************************************************************)
(* Properties of the resource loaders (SpecLoader).                        *)
(***************************************************************************)
\* The jar of the version a getResourceLoader call asked for.
TargetJar == Path(ret.install.path, "versions", ret.version)

\* The reference jar, wanted when (major, minor) of the version is not (1, 9).
IsV1_9(version) ==
    splitVersion(version).major = 1 /\ splitVersion(version).minor = 9

ReferenceFound == findVersion1_9 # NonePath /\ findVersion1_9 # RaisePath

\* C1: MCInstall.getResourceLoader(version, None), when the jar of the
\* version exists and findVersion1_9 found a reference jar, returns a loader
\* exactly when the jar is an archive, and its layers are then [jar] when
\* (major, minor) of the version is (1, 9), whatever follows the minor
\* number, and [jar, reference jar] in that order when it is not.
C1_LayersWithoutPack ==
    (/\ ret.op = "getResourceLoader"
     /\ ret.resourcePack = NoPack
     /\ PathExists(TargetJar)
     /\ ReferenceFound)
    => IF jarOkay(TargetJar)
       THEN /\ ret.result.status = "ok"
            /\ ret.result.zipFiles =
                  IF IsV1_9(ret.version) THEN <<TargetJar>>
                  ELSE <<TargetJar, findVersion1_9>>
       ELSE ret.result.status = Raise

\* A call that returned the two layers, the jar and another reference jar.
C1_TwoLayersReached ==
    /\ ret.op = "getResourceLoader"
    /\ ret.resourcePack = NoPack
    /\ jarOkay(TargetJar)
    /\ ReferenceFound
    /\ ~IsV1_9(ret.version)
    /\ ret.result.status = "ok"
    /\ Len(ret.result.zipFiles) = 2
    /\ ret.result.zipFiles[1] = TargetJar
    /\ ret.result.zipFiles[2] # TargetJar

\* C2: in MCInstall.getResourceLoader and in MMCInstance.getResourceLoader,
\* a resource pack that opens is the first layer of the loader returned,
\* and a resource pack that does not open is skipped: the result is the
\* result of the same call with no resource pack.
C2_PackFirstOrSkipped ==
    /\ (ret.op = "getResourceLoader" /\ ret.resourcePack # NoPack)
       => IF jarOkay(getResourcePackPath(ret.install, ret.resourcePack))
          THEN ret.result.status = "ok"
               => ret.result.zipFiles[1] = getResourcePackPath(ret.install, ret.resourcePack)
          ELSE ret.result = getResourceLoader(ret.install, ret.version, NoPack)
    /\ (ret.op = "mmcGetResourceLoader" /\ ret.resourcePack # NonePath)
       => IF jarOkay(ret.resourcePack)
          THEN ret.result.status = "ok" => ret.result.zipFiles[1] = ret.resourcePack
          ELSE ret.result = mmcGetResourceLoader(ret.instance, NonePath)

\* The layers before and after the jar of the version.
PackLayer ==
    IF jarOkay(Path(ret.install.path, "resourcepacks", ret.resourcePack))
    THEN <<Path(ret.install.path, "resourcepacks", ret.resourcePack)>>
    ELSE <<>>

ReferenceLayer == IF IsV1_9(ret.version) THEN <<>> ELSE <<findVersion1_9>>

FirstVersionJar == Path(ret.install.path, "versions", versions(ret.install)[1])

\* C3: MCInstall.getResourceLoader of a version whose jar does not exist,
\* once findVersion1_9 has returned,
\* fails when the install has no usable version; when it has one, the jar
\* of the first takes the place of the jar of the version, after the
\* resource pack and before the reference jar, and a loader is returned
\* when that jar and the reference jar wanted are archives.
C3_FirstVersionSubstituted ==
    (/\ ret.op = "getResourceLoader"
     /\ ~PathExists(TargetJar)
     /\ ~versionsRaises(ret.install)
     /\ findVersion1_9 # RaisePath)
    => IF Len(versions(ret.install)) = 0
       THEN ret.result.status = Raise
       ELSE /\ ret.result.status = "ok"
                => ret.result.zipFiles = PackLayer \o <<FirstVersionJar>> \o ReferenceLayer
            /\ (jarOkay(FirstVersionJar) /\ (IsV1_9(ret.version) \/ ReferenceFound))
                => ret.result.status = "ok"

\* A call that put the first of two versions between a pack and the
\* reference jar.
C3_SubstitutionReached ==
    /\ ret.op = "getResourceLoader"
    /\ ~PathExists(TargetJar)
    /\ Len(versions(ret.install)) >= 2
    /\ ret.resourcePack = GoodPack
    /\ ret.result.status = "ok"
    /\ Len(ret.result.zipFiles) = 3
    /\ ret.result.zipFiles[2] = FirstVersionJar

\* The versions findVersion1_9 may return, as <<loop, install, version>>:
\* those matchVersion accepts whose jar is an archive.
C4Hits ==
    UNION {{<<1, k, i>> : i \in {i \in 1..Len(versions(installations[k])) :
                /\ matchVersion(versions(installations[k])[i])
                /\ jarOkay(Path(installations[k].path, "versions",
                                versions(installations[k])[i]))}} :
           k \in 1..Len(installations)}
    \cup
    UNION {{<<2, k, i>> : i \in {i \in 1..Len(mmcVersions(mmcInstalls[k])) :
                /\ matchVersion(mmcVersions(mmcInstalls[k])[i])
                /\ jarOkay(Path(mmcInstalls[k].mmcDir, "versions",
                                mmcVersions(mmcInstalls[k])[i]))}} :
           k \in 1..Len(mmcInstalls)}

C4Before(g, h) ==
    \/ g[1] < h[1]
    \/ g[1] = h[1] /\ g[2] < h[2]
    \/ g[1] = h[1] /\ g[2] = h[2] /\ g[3] <= h[3]

C4Jar(h) ==
    IF h[1] = 1
    THEN Path(installations[h[2]].path, "versions", versions(installations[h[2]])[h[3]])
    ELSE Path(mmcInstalls[h[2]].mmcDir, "versions", mmcVersions(mmcInstalls[h[2]])[h[3]])

\* C4: findVersion1_9 returns the jar of the first version, over the
\* installs in stored order and then the MultiMC installs in stored order,
\* each in listing order, that matchVersion accepts and whose jar is an
\* archive; it returns None exactly when there is no such version, and
\* every path it returns is an archive.
C4_FirstFullRelease ==
    ret.op = "findVersion1_9"
    => IF C4Hits = {} THEN ret.result = NonePath
       ELSE /\ ret.result = C4Jar(CHOOSE h \in C4Hits : \A g \in C4Hits : C4Before(h, g))
            /\ jarOkay(ret.result)

\* The jar a returned loader holds in the place of the jar of the version.
PlacedJar == ret.result.zipFiles[Len(PackLayer) + 1]

\* C12: every loader MCInstall.getResourceLoader returns, a reference jar
\* having been found, gives the multipart block models: the jar in the
\* place of the jar of the version is of a version with (major, minor) =
\* (1, 9), or the reference jar is a layer after it; also when the jar of
\* another version took the place of a missing jar.
C12_MultipartAvailable ==
    (/\ ret.op = "getResourceLoader"
     /\ ReferenceFound
     /\ ret.result.status = "ok")
    => \/ IsV1_9(PlacedJar.file)
       \/ \E i \in (Len(PackLayer) + 2)..Len(ret.result.zipFiles) :
             ret.result.zipFiles[i] = findVersion1_9

(***************************************************************************)
(* Properties of the parsing of versions (SpecVersion).                    *)
(***************************************************************************)
\* C5: usableVersion(version) is TRUE exactly when (major, minor) of the
\* version is at least (1, 6) in the order of pairs.
C5_UsableFrom1_6 ==
    ret.op = "usableVersion"
    => ret.result = TupleGE(splitVersion(ret.version).major,
                            splitVersion(ret.version).minor, 1, 6)

\* C6: matchVersion accepts a version exactly when (major, minor) is at
\* least (1, 9) and what follows the minor number is empty or is a period
\* followed by an integer.
C6_FullReleaseOnly ==
    ret.op = "matchVersion"
    => ret.result =
          (/\ TupleGE(splitVersion(ret.version).major,
                      splitVersion(ret.version).minor, 1, 9)
           /\ \/ splitVersion(ret.version).rev = <<>>
              \/ /\ splitVersion(ret.version).rev[1] = "."
                 /\ PyIntParses(Tail(splitVersion(ret.version).rev)))

(***************************************************************************)
(* Properties of the group of installs (Spec).                             *)
(***************************************************************************)
\* The indices of the installs at the path the setting named before the call.
AtCurrent == {j \in 1..Len(installations) : installations[j].path = ret.was}

\* C7: getCurrentInstall, when the list of installs is not empty, returns
\* an install of the list: the first whose path is the path of the
\* current-install setting if there is one, and the first install if not,
\* the setting being then the path of that first install.
C7_CurrentInstallResolves ==
    (ret.op = "getCurrentInstall" /\ Len(installations) > 0)
    => /\ \E j \in 1..Len(installations) : ret.result = installations[j]
       /\ IF AtCurrent # {}
          THEN /\ ret.result = installations[CHOOSE j \in AtCurrent : \A m \in AtCurrent : j <= m]
               /\ currentInstallOption = ret.was
          ELSE /\ ret.result = installations[1]
               /\ currentInstallOption = installations[1].path

\* A call that fell back to the first install and stored its path.
C7_FallbackReached ==
    /\ ret.op = "getCurrentInstall"
    /\ Len(installations) > 0
    /\ ret.was # ""
    /\ AtCurrent = {}
    /\ ret.result = installations[1]
    /\ currentInstallOption = installations[1].path

\* The list without its j-th entry.
WithoutEntry(list, j) ==
    [i \in 1..(Len(list) - 1) |-> IF i < j THEN list[i] ELSE list[i + 1]]

\* The list of installs as the setting holds it.
NamesAndPaths(list) ==
    [i \in 1..Len(list) |-> [name |-> list[i].name, path |-> list[i].path]]

\* C8: removeInstall(path), of a path an install of the list has, removes
\* one entry of the list, an entry at that path, leaves the others in their
\* order, and writes the list so left to the setting.
C8_RemovesExactlyOne ==
    [][(/\ ret'.op = "removeInstall"
        /\ \E j \in 1..Len(installations) : installations[j].path = ret'.path)
       => /\ \E j \in 1..Len(installations) :
                /\ installations[j].path = ret'.path
                /\ installations' = WithoutEntry(installations, j)
          /\ installationsOption' = NamesAndPaths(installations')]_vars

\* The operations of the group that change one of its lists.
Mutated ==
    \/ ret.op \in {"addInstall", "removeInstall", "addMMCInstall", "removeMMCInstall"}
    \/ ret.op = "dialogAddInstall" /\ ret.added

\* C9: after addInstall, removeInstall, addMMCInstall and removeMMCInstall
\* the installations setting is the list of installs as {name, path}, in
\* order, and the MultiMC setting is the list of MultiMC installs as
\* {configFile}, in order.
C9_SettingsFollowLists ==
    Mutated
    => /\ installationsOption = NamesAndPaths(installations)
       /\ multiMCInstallsOption =
             [i \in 1..Len(mmcInstalls) |-> [configFile |-> mmcInstalls[i].configPath]]

\* A MultiMC install added to a group that has an install.
C9_BothListsSaved ==
    /\ ret.op = "addMMCInstall"
    /\ Len(installations) > 0
    /\ Len(mmcInstalls) > 0
    /\ Len(installationsOption) = Len(installations)
    /\ Len(multiMCInstallsOption) = Len(mmcInstalls)

\* The number of entries of a list that are the default install's pair.
DefaultEntries(list) ==
    Cardinality({i \in 1..Len(list) :
                    list[i].name = "(Default)" /\ list[i].path = minecraftDir})

AtMostOneMore(before, after) ==
    DefaultEntries(after) <= (IF DefaultEntries(before) = 0 THEN 1 ELSE DefaultEntries(before))

\* C10: a construction of the group appends the default install only when
\* its {name, path} is not in the installations setting, so the setting and
\* the list hold no more such entries after it than the setting held, or
\* one if it held none; and a construction that follows a construction
\* changes neither the list nor the setting.
C10_DiscoveryIdempotent ==
    [][ret'.op = "construct"
       => /\ AtMostOneMore(installationsOption, installationsOption')
          /\ AtMostOneMore(installationsOption, installations')
          /\ ret.op = "construct"
             => /\ installations' = installations
                /\ installationsOption' = installationsOption]_vars

\* A construction that followed a construction, the default install being
\* once in the list and once in the setting.
C10_ConstructedTwice ==
    /\ ret.op = "construct"
    /\ ret.again
    /\ checkUsable(defaultInstall)
    /\ DefaultEntries(installations) = 1
    /\ DefaultEntries(installationsOption) = 1

(***************************************************************************)
(* Properties of the installs retained (SpecUsable).                       *)
(***************************************************************************)
\* C13: every install the group holds has a usable version, so that
\* getSelectedResourceLoader, when no version is set, takes the first
\* version of the current install.
C13_RetainedInstallsUsable ==
    /\ constructed
       => \A i \in 1..Len(installations) :
             /\ ~versionsRaises(installations[i])
             /\ Len(versions(installations[i])) > 0
    /\ (/\ ret.op = "getSelectedResourceLoader"
        /\ ret.install # NoInstall
        /\ ret.currentVersion = <<>>)
       => /\ Len(versions(ret.install)) > 0
          /\ ret.version = versions(ret.install)[1]

(***************************************************************************)
(* Properties of the loader for a world (SpecWorld).                       *)
(***************************************************************************)
\* The instances in whose saves folder the file of the call lies: the file
\* is the folder or the folder and a separator begin its name.
HoldingInstances ==
    {i \in 1..Len(instancesFrom(1)) :
        \/ normpath(ret.filename) = saveFileDir(instancesFrom(1)[i])
        \/ startswith(normpath(ret.filename), saveFileDir(instancesFrom(1)[i]) \o <<"/">>)}

\* The selected loader, with the folder mods two levels above the world
\* if it is a directory.
SelectedWithMods ==
    IF ret.modsIsDir
    THEN addModsFolder(getSelectedResourceLoader(ret.currentVersion, ret.currentResourcePack),
                       modsFolder(normpath(ret.filename), ret.isdir))
    ELSE getSelectedResourceLoader(ret.currentVersion, ret.currentResourcePack)

\* C11: getResourceLoaderForFilename returns the loader of the MultiMC
\* instance in whose saves folder the world lies, whatever install,
\* version and pack are selected; for a world in no instance's saves folder
\* it returns the selected loader, with the folder mods two levels above
\* the world attached only if it is a directory.
C11_WorldLoader ==
    ret.op = "getResourceLoaderForFilename"
    => IF HoldingInstances # {}
       THEN ret.result =
               mmcGetResourceLoader(instancesFrom(1)[CHOOSE i \in HoldingInstances : TRUE],
                                    NonePath)
       ELSE ret.result = SelectedWithMods

====
